---- MODULE Spec2Model ----
(***************************************************************************)
(* Model of the tcp-rpc server (server/src/main.rs), the dispatch code     *)
(* generated by the rpc/request macros (macros/src/lib.rs) and the bincode *)
(* wire encoding both peers use.                                           *)
(*                                                                         *)
(* Tasks: the listener (main's accept loop), the ctrl-c task, and one      *)
(* session task per accepted connection (handle_connection).  The shared   *)
(* tokio::sync::Notify is modelled by its documented semantics: one stored *)
(* permit, a FIFO list of registered waiters, notify_one handing the       *)
(* notification to exactly one waiter, and a dropped notified() future     *)
(* passing an unconsumed notification on.                                  *)
(***************************************************************************)
EXTENDS Integers, Sequences, FiniteSets, TLC

(* ------------------------------ bounds --------------------------------- *)
\* connections accepted in one run
MaxConn == 2
\* stream events (frames, EOF, transport error) the peers produce in one run
MaxFrames == 2

(* --------------------------- 32-bit integers --------------------------- *)
I32Max == 2147483647
I32Min == (-2147483647) - 1

\* lhs + rhs does not fit in an i32
AddOverflows(lhs, rhs) ==
    \/ rhs > 0 /\ lhs > I32Max - rhs
    \/ rhs < 0 /\ lhs < I32Min - rhs

\* two's complement wrapping sum of two i32 (release build of lhs + rhs)
WrappingAdd(lhs, rhs) ==
    IF ~AddOverflows(lhs, rhs) THEN lhs + rhs
    ELSE IF rhs > 0 THEN (lhs + I32Min) + (rhs + I32Min)
    ELSE (lhs - I32Min) + (rhs - I32Min)

\* an AtomicU32 value as <<high 16 bits, low 16 bits>>
U32Inc(v) ==
    IF v[2] < 65535 THEN <<v[1], v[2] + 1>>
    ELSE IF v[1] < 65535 THEN <<v[1] + 1, 0>>
    ELSE <<0, 0>>

U32Less(a, b) == a[1] < b[1] \/ (a[1] = b[1] /\ a[2] < b[2])

(* ------------------------- requests, responses ------------------------- *)
PingText == <<89, 111, 117, 32, 104, 97, 118, 101, 32, 98, 101, 101, 110,
              32, 112, 105, 110, 103, 101, 100>>
PongText == <<84, 104, 101, 32, 112, 111, 110, 103, 32, 104, 97, 115, 32,
              98, 101, 101, 110, 32, 115, 101, 110, 116>>

Ping == [tag |-> "Ping"]
Pong == [tag |-> "Pong"]
Add(lhs, rhs) == [tag |-> "Add", lhs |-> lhs, rhs |-> rhs]

\* outcome of a handler: a response value or a panic of the task
Returned(r) == [panic |-> FALSE, resp |-> r]
Panicked == [panic |-> TRUE, resp |-> [tag |-> "None"]]

\* fn Add(lhs, rhs) -> i32 { lhs + rhs }: an overflowing sum panics when the
\* build checks overflow and wraps when it does not
HandleAdd(lhs, rhs) ==
    IF AddOverflows(lhs, rhs)
    THEN {Panicked, Returned(WrappingAdd(lhs, rhs))}
    ELSE {Returned(lhs + rhs)}

HandlePing == {Returned(PingText)}
HandlePong == {Returned(PongText)}

\* the generated <AppRequest as Request>::handle: the set of its outcomes
WrapInVariant(tag, outs) ==
    {IF o.panic THEN Panicked ELSE Returned([tag |-> tag, val |-> o.resp]) : o \in outs}

Handle(req) ==
    CASE req.tag = "Ping" -> WrapInVariant("Ping", HandlePing)
      [] req.tag = "Pong" -> WrapInVariant("Pong", HandlePong)
      [] req.tag = "Add"  -> WrapInVariant("Add", HandleAdd(req.lhs, req.rhs))

(* ------------------------------ bincode -------------------------------- *)
\* A u32 is carried as (half, odd) with value 2*half + odd, so that every
\* 32-bit value stays inside the checker's integers.
VarintBytes(half, odd) ==
    IF half <= 124 \/ (half = 125 /\ odd = 0) THEN <<2 * half + odd>>
    ELSE IF half < 32768 THEN <<251, half \div 128, 2 * (half % 128) + odd>>
    ELSE <<252, half \div 8388608, (half \div 32768) % 256,
           (half \div 128) % 256, 2 * (half % 128) + odd>>

\* zigzag: n >= 0 -> 2n, n < 0 -> -2n - 1
EncodeI32(n) == IF n >= 0 THEN VarintBytes(n, 0) ELSE VarintBytes(-(n + 1), 1)

VariantIndex(tag) == CASE tag = "Ping" -> 0 [] tag = "Pong" -> 1 [] tag = "Add" -> 2

\* a client whose enum lists Add before Pong
ClientVariantIndex_Reordered(tag) ==
    CASE tag = "Ping" -> 0 [] tag = "Add" -> 1 [] tag = "Pong" -> 2

\* the client's copy of the enum: Ping, Pong, Add
ClientVariantIndex(tag) == CASE tag = "Ping" -> 0 [] tag = "Pong" -> 1 [] tag = "Add" -> 2

EncodeString(s) == VarintBytes(Len(s) \div 2, Len(s) % 2) \o s

EncodeRequest(req) ==
    <<ClientVariantIndex(req.tag)>> \o
    (IF req.tag = "Add" THEN EncodeI32(req.lhs) \o EncodeI32(req.rhs) ELSE <<>>)

EncodeResponse(resp) ==
    <<VariantIndex(resp.tag)>> \o
    (IF resp.tag = "Add" THEN EncodeI32(resp.val) ELSE EncodeString(resp.val))

DecodeFail == [ok |-> FALSE]

DropBytes(bs, n) == SubSeq(bs, n + 1, Len(bs))

\* varint decode of a u32: one byte below 251, or marker 251 + u16, or marker
\* 252 + u32, big endian; markers 253..255 are rejected for a u32
ReadVarintU32(bs) ==
    IF Len(bs) = 0 THEN DecodeFail
    ELSE IF bs[1] < 251
         THEN [ok |-> TRUE, half |-> bs[1] \div 2, odd |-> bs[1] % 2, rest |-> DropBytes(bs, 1)]
    ELSE IF bs[1] = 251
         THEN IF Len(bs) < 3 THEN DecodeFail
              ELSE [ok |-> TRUE, half |-> bs[2] * 128 + bs[3] \div 2, odd |-> bs[3] % 2,
                    rest |-> DropBytes(bs, 3)]
    ELSE IF bs[1] = 252
         THEN IF Len(bs) < 5 THEN DecodeFail
              ELSE [ok |-> TRUE,
                    half |-> bs[2] * 8388608 + bs[3] * 32768 + bs[4] * 128 + bs[5] \div 2,
                    odd |-> bs[5] % 2, rest |-> DropBytes(bs, 5)]
    ELSE DecodeFail

ReadI32(bs) ==
    LET v == ReadVarintU32(bs)
    IN IF ~v.ok THEN DecodeFail
       ELSE [ok |-> TRUE, val |-> IF v.odd = 0 THEN v.half ELSE (-v.half) - 1, rest |-> v.rest]

\* bincode::decode_from_slice(..).map(|(val, _)| val): the count of bytes
\* read is dropped, so bytes left over after the value are not looked at
DecodeRequest(bs) ==
    LET t == ReadVarintU32(bs)
    IN IF ~t.ok THEN DecodeFail
       ELSE IF t.half = 0 /\ t.odd = 0 THEN [ok |-> TRUE, val |-> Ping]
       ELSE IF t.half = 0 /\ t.odd = 1 THEN [ok |-> TRUE, val |-> Pong]
       ELSE IF t.half = 1 /\ t.odd = 0
            THEN LET l == ReadI32(t.rest)
                 IN IF ~l.ok THEN DecodeFail
                    ELSE LET r == ReadI32(l.rest)
                         IN IF ~r.ok THEN DecodeFail
                            ELSE [ok |-> TRUE, val |-> Add(l.val, r.val)]
       ELSE DecodeFail

\* varint decode of a usize length: as a u32, or marker 253 + u64; a length
\* of 2^32 or more exceeds every slice and is reported as a failure
ReadLen(bs) ==
    IF Len(bs) > 0 /\ bs[1] = 253
    THEN IF Len(bs) < 9 \/ bs[2] > 0 \/ bs[3] > 0 \/ bs[4] > 0 \/ bs[5] > 0 THEN DecodeFail
         ELSE [ok |-> TRUE,
               half |-> bs[6] * 8388608 + bs[7] * 32768 + bs[8] * 128 + bs[9] \div 2,
               odd |-> bs[9] % 2, rest |-> DropBytes(bs, 9)]
    ELSE ReadVarintU32(bs)

Continuation(b) == b \in 128..191

\* String::from_utf8: well-formed UTF-8
RECURSIVE Utf8Valid(_)
Utf8Valid(bs) ==
    IF bs = <<>> THEN TRUE
    ELSE LET b == bs[1]
             n == Len(bs)
         IN IF b < 128 THEN Utf8Valid(DropBytes(bs, 1))
            ELSE IF b \in 194..223
                 THEN n >= 2 /\ Continuation(bs[2]) /\ Utf8Valid(DropBytes(bs, 2))
            ELSE IF b \in 224..239
                 THEN /\ n >= 3
                      /\ IF b = 224 THEN bs[2] \in 160..191
                         ELSE IF b = 237 THEN bs[2] \in 128..159
                         ELSE Continuation(bs[2])
                      /\ Continuation(bs[3])
                      /\ Utf8Valid(DropBytes(bs, 3))
            ELSE IF b \in 240..244
                 THEN /\ n >= 4
                      /\ IF b = 240 THEN bs[2] \in 144..191
                         ELSE IF b = 244 THEN bs[2] \in 128..143
                         ELSE Continuation(bs[2])
                      /\ Continuation(bs[3])
                      /\ Continuation(bs[4])
                      /\ Utf8Valid(DropBytes(bs, 4))
            ELSE FALSE

ReadString(bs) ==
    LET n == ReadLen(bs)
    IN IF ~n.ok THEN DecodeFail
       ELSE IF n.half > Len(n.rest) \/ 2 * n.half + n.odd > Len(n.rest) THEN DecodeFail
       ELSE LET str == SubSeq(n.rest, 1, 2 * n.half + n.odd)
            IN IF Utf8Valid(str) THEN [ok |-> TRUE, val |-> str] ELSE DecodeFail

\* the client's bincode::decode_from_slice::<AppResponse>(..).map(|(val, _)| val)
DecodeResponse(bs) ==
    LET t == ReadVarintU32(bs)
    IN IF ~t.ok \/ t.half > 1 THEN DecodeFail
       ELSE LET tags == {g \in {"Ping", "Pong", "Add"} :
                           ClientVariantIndex(g) = 2 * t.half + t.odd}
            IN IF tags = {} THEN DecodeFail
               ELSE LET tag == CHOOSE g \in tags : TRUE
                        v == IF tag = "Add" THEN ReadI32(t.rest) ELSE ReadString(t.rest)
                    IN IF v.ok THEN [ok |-> TRUE, val |-> [tag |-> tag, val |-> v.val]]
                       ELSE DecodeFail

(* ------------------------------ the state ------------------------------ *)
Conns == 1..MaxConn
\* task names on the notifier: the listener, and each session by its slot
Listener == 0

NoReq == [tag |-> "None"]

\* payloads the modelled peers put in a frame: Ping, Add{i32::MAX,1}, and a
\* frame whose variant index names no variant
Payloads == {EncodeRequest(Ping), EncodeRequest(Add(I32Max, 1)), <<3>>}

Frame(bs) == [kind |-> "frame", bytes |-> bs]
Eof == [kind |-> "eof", bytes |-> <<>>]
ReadErr == [kind |-> "err", bytes |-> <<>>]

\* LengthDelimitedCodec::new(): max_frame_length is 8 * 1024 * 1024
MaxFrameLength == 8388608

\* a codec that also refuses a frame of exactly the maximum length
HeadTooLong_AtMax(h) == h[1] > 0 \/ h[2] * 65536 + h[3] * 256 + h[4] >= MaxFrameLength

\* decode_head: the 4-byte big-endian length prefix h declares more than
\* max_frame_length
HeadTooLong(h) == h[1] > 0 \/ h[2] * 65536 + h[3] * 256 + h[4] > MaxFrameLength

\* a length prefix whose payload has not arrived
Prefix(h) == [kind |-> "head", bytes |-> h]

\* length prefixes the modelled peers send without a payload: 8 MiB and
\* 8 MiB + 1
RawHeads == {<<0, 128, 0, 0>>, <<0, 128, 0, 1>>}

\* AtomicU32::new(1)
CounterAtStart == <<0, 1>>
\* the counter of a process that has accepted u32::MAX - 1 connections, all
\* of them ended: u32::MAX
CounterAfterLongRun == <<65535, 65535>>

VARIABLES
    counter,        \* CONNECTION_ID_COUNTER
    notify,         \* the shared Notify: permit, waiters (FIFO), assigned
    sigpc,          \* ctrl-c task: "waiting", "woken", "done"
    interrupt,      \* an interrupt was delivered to the process
    fired,          \* number of notify_one calls made
    lpc,            \* listener: "loop", "select", "select_noaccept", "exited", "returned"
    backlog,        \* connections waiting to be accepted
    nacc,           \* connections accepted so far
    pc,             \* session: "none", "loop", "select", "dispatching", "sending",
                    \*          "closing", "closed", "panicked", "aborted"
    id,             \* connection_id given to the session
    peer,           \* what the peer has produced: [n, open]
    inbox,          \* stream events not yet yielded by framed.next()
    taken,          \* frames framed.next() has yielded
    req,            \* request being handled
    cur,            \* encoded response being sent
    out,            \* response frames written to the peer
    result,         \* what handle_connection returned: "none", "Ok", "Io", "BincodeDecode"
    sockShutdown,   \* framed.get_mut().shutdown() was called
    leftBy,         \* how the session left its loop: "none", "eof", "shutdown",
                    \* "read_err", "too_long"
    atFire,         \* what notify_one found when it ran: idle, whether the
                    \* listener and every open session (at least one) were
                    \* pending in their select; inFlight[c], the number of
                    \* frames session c had taken if it was then handling or
                    \* answering one, else 0
    dreq,           \* harness: request under test
    dout,           \* harness: outcome of handle, or NoOut
    xpc,            \* exchange harness: "off", "client", "wire", "decoded",
                    \* "rejected", "panicked", "respond", "reply", "done"
    wire,           \* exchange harness: request payload on the wire
    sreq,           \* exchange harness: what the server decoded
    xresp,          \* exchange harness: response value the server sends
    wresp,          \* exchange harness: response payload on the wire
    cresp,          \* exchange harness: what the client decoded
    client          \* the client program: pc ("off", "connecting", "prompt",
                    \* "awaiting", "exited"), lines read, request frames sent,
                    \* responses decoded

sessVars == <<pc, id, peer, inbox, taken, req, cur, out, result, sockShutdown, leftBy>>
sigVars == <<sigpc, interrupt, fired, atFire>>
lisVars == <<lpc, backlog, nacc, counter>>
harnessVars == <<dreq, dout, xpc, wire, sreq, xresp, wresp, cresp, client>>
vars == <<counter, notify, sigpc, interrupt, fired, lpc, backlog, nacc, pc, id, peer,
          inbox, taken, req, cur, out, result, sockShutdown, leftBy, atFire, dreq, dout,
          xpc, wire, sreq, xresp, wresp, cresp, client>>

NoOut == [panic |-> FALSE, resp |-> NoReq]

\* session places: running handle_connection, and ended
Live(p) == p \in {"loop", "select", "dispatching", "sending", "closing"}
Down(p) == p \in {"closed", "panicked", "aborted"}

(* ---------------------------- tokio Notify ----------------------------- *)
RemoveWaiter(w, t) == SelectSeq(w, LAMBDA x : x # t)

\* a notifier that forgets a notification nobody is registered for
NotifyOne_NoPermit(n) ==
    IF n.waiters # <<>>
    THEN [n EXCEPT !.waiters = Tail(@), !.assigned = @ \cup {Head(n.waiters)}]
    ELSE n

\* Notify::notify_one: hand the notification to the oldest registered
\* waiter, or store one permit when nobody is registered
NotifyOne(n) ==
    IF n.waiters # <<>>
    THEN [n EXCEPT !.waiters = Tail(@), !.assigned = @ \cup {Head(n.waiters)}]
    ELSE [n EXCEPT !.permit = TRUE]

\* dropping the notified() future of task t when the other select branch
\* won: leave the waiter list, and pass on a notification t was handed
DropNotified(n, t) ==
    IF t \in n.assigned
    THEN NotifyOne([n EXCEPT !.assigned = @ \ {t}])
    ELSE [n EXCEPT !.waiters = RemoveWaiter(@, t)]

\* first poll of a fresh notified() future that finds no permit
Register(n, t) == [n EXCEPT !.waiters = Append(@, t)]

(* ------------------------------- Init ---------------------------------- *)
InitServer(firstId) ==
    /\ counter = firstId
    /\ notify = [permit |-> FALSE, waiters |-> <<>>, assigned |-> {}]
    /\ sigpc = "waiting"
    /\ interrupt = FALSE
    /\ fired = 0
    /\ lpc = "loop"
    /\ backlog = 0
    /\ nacc = 0
    /\ pc = [c \in Conns |-> "none"]
    /\ id = [c \in Conns |-> <<0, 0>>]
    /\ peer = [c \in Conns |-> [n |-> 0, open |-> TRUE]]
    /\ inbox = [c \in Conns |-> <<>>]
    /\ taken = [c \in Conns |-> <<>>]
    /\ req = [c \in Conns |-> NoReq]
    /\ cur = [c \in Conns |-> <<>>]
    /\ out = [c \in Conns |-> <<>>]
    /\ result = [c \in Conns |-> "none"]
    /\ sockShutdown = [c \in Conns |-> FALSE]
    /\ leftBy = [c \in Conns |-> "none"]
    /\ atFire = [idle |-> FALSE, inFlight |-> [c \in Conns |-> 0]]

\* no client program is running
ClientOff == [pc |-> "off", lines |-> 0, sent |-> 0, recv |-> 0]

\* the exchange harness at rest
ExchangeOff ==
    /\ xpc = "off"
    /\ wire = <<>>
    /\ sreq = DecodeFail
    /\ xresp = NoReq
    /\ wresp = <<>>
    /\ cresp = DecodeFail

Init ==
    /\ InitServer(CounterAtStart)
    /\ dreq = NoReq
    /\ dout = NoOut
    /\ ExchangeOff
    /\ client = ClientOff

\* the server with no connection open, late in a long process lifetime
InitLongRun ==
    /\ InitServer(CounterAfterLongRun)
    /\ dreq = NoReq
    /\ dout = NoOut
    /\ ExchangeOff
    /\ client = ClientOff


(* --------------------------- the ctrl-c task --------------------------- *)
\* tokio::signal::ctrl_c().await returns Ok(()): an interrupt arrived
CtrlCReceived ==
    /\ sigpc = "waiting"
    /\ sigpc' = "woken"
    /\ interrupt' = TRUE
    /\ UNCHANGED <<fired, atFire, notify, lisVars, sessVars, harnessVars>>

\* ctrl_c().await returns Err: unwrap_or_else logs it and the task goes on
CtrlCFailed ==
    /\ sigpc = "waiting"
    /\ sigpc' = "woken"
    /\ UNCHANGED <<interrupt, fired, atFire, notify, lisVars, sessVars, harnessVars>>

\* shutdown.notify_one()
SignalNotify ==
    /\ sigpc = "woken"
    /\ sigpc' = "done"
    /\ notify' = NotifyOne(notify)
    /\ fired' = fired + 1
    /\ atFire' =
         [idle |-> /\ lpc = "select"
                   /\ \E c \in Conns : pc[c] = "select"
                   /\ \A c \in Conns : pc[c] \in {"none", "select"} \/ Down(pc[c]),
          inFlight |-> [c \in Conns |->
                          IF pc[c] \in {"dispatching", "sending"} THEN Len(taken[c]) ELSE 0]]
    /\ UNCHANGED <<interrupt, lisVars, sessVars, harnessVars>>

(* ----------------------------- the listener ---------------------------- *)
\* a peer connects; the connection waits in the accept queue
ClientConnect ==
    /\ lpc # "returned"
    /\ backlog + nacc < MaxConn
    /\ backlog' = backlog + 1
    /\ UNCHANGED <<lpc, nacc, counter, notify, sigVars, sessVars, harnessVars>>

\* select!: Ok((socket, peer_addr)) = listener.accept() => { fetch_add; spawn }
ListenerAccept ==
    /\ lpc \in {"loop", "select"}
    /\ backlog > 0
    /\ LET c == nacc + 1
       IN /\ id' = [id EXCEPT ![c] = counter]
          /\ pc' = [pc EXCEPT ![c] = "loop"]
    /\ counter' = U32Inc(counter)
    /\ nacc' = nacc + 1
    /\ backlog' = backlog - 1
    /\ notify' = IF lpc = "select" THEN DropNotified(notify, Listener) ELSE notify
    /\ lpc' = "loop"
    /\ UNCHANGED <<sigVars, peer, inbox, taken, req, cur, out, result, sockShutdown, leftBy,
                   harnessVars>>

\* listener.accept() yields Err: the pattern Ok(..) does not match, select!
\* disables the branch and keeps waiting on shutdown.notified() alone
ListenerAcceptErr ==
    /\ \/ lpc = "loop" /\ ~notify.permit /\ notify' = Register(notify, Listener)
       \/ lpc = "select" /\ notify' = notify
    /\ lpc' = "select_noaccept"
    /\ UNCHANGED <<backlog, nacc, counter, sigVars, sessVars, harnessVars>>

\* select!: neither branch is ready on the first poll; notified() registers
ListenerPending ==
    /\ lpc = "loop"
    /\ ~notify.permit
    /\ backlog = 0
    /\ notify' = Register(notify, Listener)
    /\ lpc' = "select"
    /\ UNCHANGED <<backlog, nacc, counter, sigVars, sessVars, harnessVars>>

\* select!: _ = shutdown.notified() => break
ListenerNotified ==
    /\ \/ lpc = "loop" /\ notify.permit /\ notify' = [notify EXCEPT !.permit = FALSE]
       \/ /\ lpc \in {"select", "select_noaccept"}
          /\ Listener \in notify.assigned
          /\ notify' = [notify EXCEPT !.assigned = @ \ {Listener}]
    /\ lpc' = "exited"
    /\ UNCHANGED <<backlog, nacc, counter, sigVars, sessVars, harnessVars>>

\* main returns Ok(()): the runtime is dropped and every task still alive
\* is dropped at the await it is suspended on
MainReturn ==
    /\ lpc = "exited"
    /\ lpc' = "returned"
    /\ pc' = [c \in Conns |-> IF Live(pc[c]) THEN "aborted" ELSE pc[c]]
    /\ notify' = [notify EXCEPT !.waiters = <<>>, !.assigned = {}]
    /\ UNCHANGED <<backlog, nacc, counter, sigVars, id, peer, inbox, taken, req, cur, out,
                   result, sockShutdown, leftBy, harnessVars>>

(* ------------------------------ the peers ------------------------------ *)
RECURSIVE Produced(_)
Produced(k) == IF k = 0 THEN 0 ELSE peer[k].n + Produced(k - 1)

PeerCanWrite(c) == Live(pc[c]) /\ peer[c].open /\ Produced(MaxConn) < MaxFrames

PeerSend(c, bs) ==
    /\ PeerCanWrite(c)
    /\ inbox' = [inbox EXCEPT ![c] = Append(@, Frame(bs))]
    /\ peer' = [peer EXCEPT ![c].n = @ + 1]
    /\ UNCHANGED <<notify, sigVars, lisVars, pc, id, taken, req, cur, out, result,
                   sockShutdown, leftBy, harnessVars>>

\* the peer closes its write side at a frame boundary
PeerClose(c) ==
    /\ PeerCanWrite(c)
    /\ inbox' = [inbox EXCEPT ![c] = Append(@, Eof)]
    /\ peer' = [peer EXCEPT ![c] = [n |-> @.n + 1, open |-> FALSE]]
    /\ UNCHANGED <<notify, sigVars, lisVars, pc, id, taken, req, cur, out, result,
                   sockShutdown, leftBy, harnessVars>>

\* the stream fails: reset, end of stream inside a frame, oversized length
PeerFail(c) ==
    /\ PeerCanWrite(c)
    /\ inbox' = [inbox EXCEPT ![c] = Append(@, ReadErr)]
    /\ peer' = [peer EXCEPT ![c] = [n |-> @.n + 1, open |-> FALSE]]
    /\ UNCHANGED <<notify, sigVars, lisVars, pc, id, taken, req, cur, out, result,
                   sockShutdown, leftBy, harnessVars>>


\* the peer sends a length prefix and nothing after it
PeerSendHead(c, h) ==
    /\ PeerCanWrite(c)
    /\ inbox' = [inbox EXCEPT ![c] = Append(@, Prefix(h))]
    /\ peer' = [peer EXCEPT ![c] = [n |-> @.n + 1, open |-> FALSE]]
    /\ UNCHANGED <<notify, sigVars, lisVars, pc, id, taken, req, cur, out, result,
                   sockShutdown, leftBy, harnessVars>>

(* ---------------------- a session: handle_connection ------------------- *)
\* the notifier after the framed.next() branch of the session's select! won
AfterFrameBranch(c) == IF pc[c] = "select" THEN DropNotified(notify, c) ELSE notify

\* a server that reads from a connection only while no other session is
\* handling or answering a request
FrameReady_Serialized(c, kind) ==
    /\ pc[c] \in {"loop", "select"}
    /\ inbox[c] # <<>>
    /\ Head(inbox[c]).kind = kind
    /\ \A d \in Conns \ {c} : pc[d] \notin {"dispatching", "sending"}

FrameReady(c, kind) ==
    /\ pc[c] \in {"loop", "select"}
    /\ inbox[c] # <<>>
    /\ Head(inbox[c]).kind = kind

\* a session that drops a frame it cannot decode and reads on
OnFrame_SkipsBadFrame(c, bs) ==
    LET d == DecodeRequest(bs)
    IN IF d.ok
       THEN /\ pc' = [pc EXCEPT ![c] = "dispatching"]
            /\ req' = [req EXCEPT ![c] = d.val]
            /\ result' = result
       ELSE /\ pc' = [pc EXCEPT ![c] = "loop"]
            /\ req' = req
            /\ result' = result

\* a decode error that takes every running session down with it
OnFrame_FailureKillsAll(c, bs) ==
    LET d == DecodeRequest(bs)
    IN IF d.ok
       THEN /\ pc' = [pc EXCEPT ![c] = "dispatching"]
            /\ req' = [req EXCEPT ![c] = d.val]
            /\ result' = result
       ELSE /\ pc' = [b \in Conns |-> IF Live(pc[b]) THEN "closed" ELSE pc[b]]
            /\ req' = req
            /\ result' = [result EXCEPT ![c] = "BincodeDecode"]

\* handle_request, up to the decode: what the session does with a frame
\* whose bytes are bs
OnFrame(c, bs) ==
    LET d == DecodeRequest(bs)
    IN IF d.ok
       THEN /\ pc' = [pc EXCEPT ![c] = "dispatching"]
            /\ req' = [req EXCEPT ![c] = d.val]
            /\ result' = result
       ELSE /\ pc' = [pc EXCEPT ![c] = "closed"]
            /\ req' = req
            /\ result' = [result EXCEPT ![c] = "BincodeDecode"]

\* select!: framed.next() yields Some(Ok(segment)); handle_request decodes it
TakeFrame(c) ==
    /\ FrameReady(c, "frame")
    /\ taken' = [taken EXCEPT ![c] = Append(@, Head(inbox[c]).bytes)]
    /\ inbox' = [inbox EXCEPT ![c] = Tail(@)]
    /\ OnFrame(c, Head(inbox[c]).bytes)
    /\ notify' = AfterFrameBranch(c)
    /\ UNCHANGED <<sigVars, lisVars, id, peer, cur, out, sockShutdown, leftBy, harnessVars>>

\* a session that treats the end of the stream as a read error
TakeEof_AsError(c) ==
    /\ FrameReady(c, "eof")
    /\ inbox' = [inbox EXCEPT ![c] = Tail(@)]
    /\ pc' = [pc EXCEPT ![c] = "closed"]
    /\ result' = [result EXCEPT ![c] = "Io"]
    /\ leftBy' = [leftBy EXCEPT ![c] = "eof"]
    /\ notify' = AfterFrameBranch(c)
    /\ UNCHANGED <<sigVars, lisVars, id, peer, taken, req, cur, out, sockShutdown,
                   harnessVars>>

\* select!: framed.next() yields None => break
TakeEof(c) ==
    /\ FrameReady(c, "eof")
    /\ inbox' = [inbox EXCEPT ![c] = Tail(@)]
    /\ pc' = [pc EXCEPT ![c] = "closing"]
    /\ leftBy' = [leftBy EXCEPT ![c] = "eof"]
    /\ notify' = AfterFrameBranch(c)
    /\ UNCHANGED <<sigVars, lisVars, id, peer, taken, req, cur, out, result, sockShutdown,
                   harnessVars>>

\* select!: framed.next() yields Some(Err(e)); `?` returns Err(Error::Io)
TakeReadErr(c) ==
    /\ FrameReady(c, "err")
    /\ inbox' = [inbox EXCEPT ![c] = Tail(@)]
    /\ pc' = [pc EXCEPT ![c] = "closed"]
    /\ result' = [result EXCEPT ![c] = "Io"]
    /\ leftBy' = [leftBy EXCEPT ![c] = "read_err"]
    /\ notify' = AfterFrameBranch(c)
    /\ UNCHANGED <<sigVars, lisVars, id, peer, taken, req, cur, out, sockShutdown,
                   harnessVars>>

\* select!: framed.next() yields Some(Err(e)) for a length prefix above
\* max_frame_length, before any payload is there; `?` returns Err(Error::Io)
TakeTooLong(c) ==
    /\ FrameReady(c, "head")
    /\ HeadTooLong(Head(inbox[c]).bytes)
    /\ inbox' = [inbox EXCEPT ![c] = Tail(@)]
    /\ pc' = [pc EXCEPT ![c] = "closed"]
    /\ result' = [result EXCEPT ![c] = "Io"]
    /\ leftBy' = [leftBy EXCEPT ![c] = "too_long"]
    /\ notify' = AfterFrameBranch(c)
    /\ UNCHANGED <<sigVars, lisVars, id, peer, taken, req, cur, out, sockShutdown,
                   harnessVars>>

\* framed.next() has nothing to yield: no bytes, or an accepted length
\* prefix whose payload is still to come
NothingToRead(c) ==
    IF inbox[c] = <<>> THEN TRUE
    ELSE Head(inbox[c]).kind = "head" /\ ~HeadTooLong(Head(inbox[c]).bytes)

\* select!: neither branch is ready on the first poll; notified() registers
SessionPending(c) ==
    /\ pc[c] = "loop"
    /\ ~notify.permit
    /\ NothingToRead(c)
    /\ notify' = Register(notify, c)
    /\ pc' = [pc EXCEPT ![c] = "select"]
    /\ UNCHANGED <<sigVars, lisVars, id, peer, inbox, taken, req, cur, out, result,
                   sockShutdown, leftBy, harnessVars>>

\* select!: _ = shutdown.notified() => break
SessionNotified(c) ==
    /\ \/ pc[c] = "loop" /\ notify.permit /\ notify' = [notify EXCEPT !.permit = FALSE]
       \/ /\ pc[c] = "select"
          /\ c \in notify.assigned
          /\ notify' = [notify EXCEPT !.assigned = @ \ {c}]
    /\ pc' = [pc EXCEPT ![c] = "closing"]
    /\ leftBy' = [leftBy EXCEPT ![c] = "shutdown"]
    /\ UNCHANGED <<sigVars, lisVars, id, peer, inbox, taken, req, cur, out, result,
                   sockShutdown, harnessVars>>

\* what the session does with the outcome o of req.handle().await: encode
\* the response and go on to framed.send, or unwind on a panic
OnHandled(c, o) ==
    IF o.panic
    THEN /\ pc' = [pc EXCEPT ![c] = "panicked"]
         /\ cur' = cur
    ELSE /\ pc' = [pc EXCEPT ![c] = "sending"]
         /\ cur' = [cur EXCEPT ![c] = EncodeResponse(o.resp)]

\* handle_request: req.handle().await completes, bincode::encode_to_vec
HandleDone(c) ==
    /\ pc[c] = "dispatching"
    /\ \E o \in Handle(req[c]) : OnHandled(c, o)
    /\ req' = [req EXCEPT ![c] = NoReq]
    /\ UNCHANGED <<notify, sigVars, lisVars, id, peer, inbox, taken, out, result,
                   sockShutdown, leftBy, harnessVars>>

\* a send that puts the response frame on the wire twice
OnSent_Twice(c, rb) ==
    /\ out' = [out EXCEPT ![c] = Append(Append(@, rb), rb)]
    /\ pc' = [pc EXCEPT ![c] = "loop"]

\* a send that goes back to the loop without the frame reaching the wire
OnSent_FrameLost(c, rb) ==
    /\ out' = out
    /\ pc' = [pc EXCEPT ![c] = "loop"]

\* the frames on the wire and the session's place after framed.send wrote
\* the response bytes rb
OnSent(c, rb) ==
    /\ out' = [out EXCEPT ![c] = Append(@, rb)]
    /\ pc' = [pc EXCEPT ![c] = "loop"]

\* framed.send(resp_bytes).await returns Ok
SendOk(c) ==
    /\ pc[c] = "sending"
    /\ OnSent(c, cur[c])
    /\ cur' = [cur EXCEPT ![c] = <<>>]
    /\ UNCHANGED <<notify, sigVars, lisVars, id, peer, inbox, taken, req, result,
                   sockShutdown, leftBy, harnessVars>>

\* framed.send(..).await returns Err; map_err, `?` returns Err(Error::Io)
SendErr(c) ==
    /\ pc[c] = "sending"
    /\ pc' = [pc EXCEPT ![c] = "closed"]
    /\ result' = [result EXCEPT ![c] = "Io"]
    /\ cur' = [cur EXCEPT ![c] = <<>>]
    /\ UNCHANGED <<notify, sigVars, lisVars, id, peer, inbox, taken, req, out,
                   sockShutdown, leftBy, harnessVars>>

\* framed.get_mut().shutdown().await after the loop: Ok(()) or Err(Error::Io)
SocketShutdown(c, res) ==
    /\ pc[c] = "closing"
    /\ pc' = [pc EXCEPT ![c] = "closed"]
    /\ sockShutdown' = [sockShutdown EXCEPT ![c] = TRUE]
    /\ result' = [result EXCEPT ![c] = res]
    /\ UNCHANGED <<notify, sigVars, lisVars, id, peer, inbox, taken, req, cur, out,
                   leftBy, harnessVars>>

(* --------------------------- specifications ---------------------------- *)
SessionStep(c) ==
    \/ TakeFrame(c)
    \/ TakeEof(c)
    \/ TakeReadErr(c)
    \/ TakeTooLong(c)
    \/ SessionPending(c)
    \/ SessionNotified(c)
    \/ HandleDone(c)
    \/ SendOk(c)
    \/ SendErr(c)
    \/ SocketShutdown(c, "Ok")
    \/ SocketShutdown(c, "Io")

\* the steps of the session that serves a well-behaved peer
ServedStep(c) ==
    \/ TakeFrame(c)
    \/ TakeEof(c)
    \/ SessionPending(c)
    \/ SessionNotified(c)
    \/ HandleDone(c)
    \/ SendOk(c)
    \/ SendErr(c)
    \/ SocketShutdown(c, "Ok")
    \/ SocketShutdown(c, "Io")

ListenerStep ==
    \/ ListenerAccept
    \/ ListenerAcceptErr
    \/ ListenerPending
    \/ ListenerNotified
    \/ MainReturn

Next ==
    \/ CtrlCReceived
    \/ CtrlCFailed
    \/ SignalNotify
    \/ ClientConnect
    \/ ListenerStep
    \/ \E c \in Conns : SessionStep(c)
    \/ \E c \in Conns, bs \in Payloads : PeerSend(c, bs)
    \/ \E c \in Conns : PeerClose(c)
    \/ \E c \in Conns : PeerFail(c)
    \/ \E c \in Conns, h \in RawHeads : PeerSendHead(c, h)

Spec == Init /\ [][Next]_vars

SpecLongRun == InitLongRun /\ [][Next]_vars

\* The runtime keeps polling every task that can run: a listener step, a
\* session step that needs nothing more from the peer, the pending
\* notify_one and main's return are each taken once they stay enabled.
\* Peers, the interrupt and I/O failures are under no obligation.
SessionProgress(c) ==
    \/ TakeFrame(c)
    \/ TakeEof(c)
    \/ TakeReadErr(c)
    \/ TakeTooLong(c)
    \/ SessionPending(c)
    \/ SessionNotified(c)
    \/ HandleDone(c)
    \/ SendOk(c)
    \/ SocketShutdown(c, "Ok")

ListenerProgress ==
    \/ ListenerAccept
    \/ ListenerPending
    \/ ListenerNotified
    \/ MainReturn

FairSpec ==
    /\ Spec
    /\ WF_vars(SignalNotify)
    /\ WF_vars(ListenerProgress)
    /\ \A c \in Conns : WF_vars(SessionProgress(c))

\* The server with peers that send well-formed Ping requests and close in
\* good order, under the same scheduling obligations.
NextQuiet ==
    \/ CtrlCReceived
    \/ CtrlCFailed
    \/ SignalNotify
    \/ ClientConnect
    \/ ListenerStep
    \/ \E c \in Conns : ServedStep(c)
    \/ \E c \in Conns : PeerSend(c, EncodeRequest(Ping))
    \/ \E c \in Conns : PeerClose(c)

FairSpecQuiet ==
    /\ Init
    /\ [][NextQuiet]_vars
    /\ WF_vars(SignalNotify)
    /\ WF_vars(ListenerProgress)
    /\ \A c \in Conns : WF_vars(SessionProgress(c))

(* -------------------------- dispatch harness --------------------------- *)
I32Samples == {I32Min, I32Min + 1, -126, -1, 0, 1, 2, 3, 125, I32Max - 1, I32Max}

DispatchInputs == {Ping, Pong} \cup {Add(l, r) : l \in I32Samples, r \in I32Samples}

InitDispatch ==
    /\ InitServer(CounterAtStart)
    /\ dreq \in DispatchInputs
    /\ dout = NoOut
    /\ ExchangeOff
    /\ client = ClientOff

\* one call of <AppRequest as Request>::handle on the request under test
DispatchStep ==
    /\ dout = NoOut
    /\ dout' \in Handle(dreq)
    /\ UNCHANGED <<dreq, xpc, wire, sreq, xresp, wresp, cresp, client, notify, sigVars,
                   lisVars, sessVars>>

NextDispatch == DispatchStep

SpecDispatch == InitDispatch /\ [][NextDispatch]_vars


(* -------------------------- exchange harness --------------------------- *)
\* One request/response exchange between the client's codec and the
\* server's: the client encodes a request (or a peer puts arbitrary bytes in
\* a frame), the server decodes, handles and encodes, the client decodes.
CodecI32 == I32Samples \cup {126, -127, 32767, 32768, -32768, -32769}

ExchangeInputs == {Ping, Pong} \cup {Add(l, r) : l \in CodecI32, r \in CodecI32}

\* frame payloads of a peer that does not use the client's encoder: empty,
\* exact encodings, an encoding with bytes after it, unknown variant
\* indexes, cut-off fields, and integers in a longer form than needed
RawPayloads ==
    {<<>>, <<0>>, <<0, 7>>, <<3>>, <<253>>, <<2, 4>>, <<2, 4, 6>>, <<2, 4, 6, 0>>,
     <<2, 251, 0>>, <<2, 251, 0, 4, 6>>, <<252, 0, 0, 0, 1>>}

\* response values a server may hold, besides those the handlers return
ResponseSamples ==
    {[tag |-> "Ping", val |-> <<>>], [tag |-> "Ping", val |-> PingText],
     [tag |-> "Pong", val |-> <<195, 169>>], [tag |-> "Pong", val |-> PongText]}
    \cup {[tag |-> "Add", val |-> v] : v \in CodecI32}

InitExchange ==
    /\ InitServer(CounterAtStart)
    /\ dout = NoOut
    /\ sreq = DecodeFail
    /\ wresp = <<>>
    /\ cresp = DecodeFail
    /\ client = ClientOff
    /\ \/ xpc = "client" /\ dreq \in ExchangeInputs /\ wire = <<>> /\ xresp = NoReq
       \/ xpc = "wire" /\ dreq = NoReq /\ wire \in RawPayloads /\ xresp = NoReq
       \/ xpc = "respond" /\ dreq = NoReq /\ wire = <<>> /\ xresp \in ResponseSamples

\* client: bincode::encode_to_vec(req, BINCODE_CONFIG), framed.send
XClientEncode ==
    /\ xpc = "client"
    /\ wire' = EncodeRequest(dreq)
    /\ xpc' = "wire"
    /\ UNCHANGED <<dreq, dout, sreq, xresp, wresp, cresp, client, notify, sigVars,
                   lisVars, sessVars>>

\* server: handle_request decodes the frame
XServerDecode ==
    /\ xpc = "wire"
    /\ sreq' = DecodeRequest(wire)
    /\ xpc' = IF sreq'.ok THEN "decoded" ELSE "rejected"
    /\ UNCHANGED <<dreq, dout, wire, xresp, wresp, cresp, client, notify, sigVars,
                   lisVars, sessVars>>

\* server: req.handle().await
XServerHandle ==
    /\ xpc = "decoded"
    /\ dout' \in Handle(sreq.val)
    /\ xpc' = IF dout'.panic THEN "panicked" ELSE "respond"
    /\ xresp' = IF dout'.panic THEN xresp ELSE dout'.resp
    /\ UNCHANGED <<dreq, wire, sreq, wresp, cresp, client, notify, sigVars,
                   lisVars, sessVars>>

\* server: bincode::encode_to_vec(resp, BINCODE_CONFIG), framed.send
XServerEncode ==
    /\ xpc = "respond"
    /\ wresp' = EncodeResponse(xresp)
    /\ xpc' = "reply"
    /\ UNCHANGED <<dreq, dout, wire, sreq, xresp, cresp, client, notify, sigVars,
                   lisVars, sessVars>>

\* client: bincode::decode_from_slice of the response frame
XClientDecode ==
    /\ xpc = "reply"
    /\ cresp' = DecodeResponse(wresp)
    /\ xpc' = "done"
    /\ UNCHANGED <<dreq, dout, wire, sreq, xresp, wresp, client, notify, sigVars,
                   lisVars, sessVars>>

NextExchange ==
    \/ XClientEncode
    \/ XServerDecode
    \/ XServerHandle
    \/ XServerEncode
    \/ XClientDecode

SpecExchange == InitExchange /\ [][NextExchange]_vars

(* ------------------------- the client program -------------------------- *)
\* the server slot of the client's connection: it is the first to connect
Mine == 1

\* what a line typed at the prompt parses to: a request, or nothing
Unparsable == [tag |-> "Unparsable"]
ClientLines == {Ping, Pong, Add(1, 2), Add(I32Max, 1), Unparsable}

\* the server end of the client's connection is gone: the session ended,
\* shut the socket down, or the listener was dropped before accepting
ServerGone ==
    \/ Down(pc[Mine])
    \/ sockShutdown[Mine]
    \/ pc[Mine] = "none" /\ lpc = "returned"

\* main returns and the stream is dropped: the server reads end of stream
Hangup ==
    /\ inbox' = [inbox EXCEPT ![Mine] = Append(@, Eof)]
    /\ peer' = [peer EXCEPT ![Mine].open = FALSE]

InitClient ==
    /\ InitServer(CounterAtStart)
    /\ dreq = NoReq
    /\ dout = NoOut
    /\ ExchangeOff
    /\ client = [ClientOff EXCEPT !.pc = "connecting"]

\* TcpStream::connect(addr).await succeeds
CliConnect ==
    /\ client.pc = "connecting"
    /\ lpc # "returned"
    /\ backlog' = backlog + 1
    /\ client' = [client EXCEPT !.pc = "prompt"]
    /\ UNCHANGED <<lpc, nacc, counter, notify, sigVars, sessVars, dreq, dout, xpc, wire,
                   sreq, xresp, wresp, cresp>>

\* TcpStream::connect(addr).await fails; `?` leaves main
CliConnectErr ==
    /\ client.pc = "connecting"
    /\ client' = [client EXCEPT !.pc = "exited"]
    /\ UNCHANGED <<lisVars, notify, sigVars, sessVars, dreq, dout, xpc, wire, sreq, xresp,
                   wresp, cresp>>

\* rl.readline is Interrupted, Eof or another error: break
CliQuit ==
    /\ client.pc = "prompt"
    /\ client' = [client EXCEPT !.pc = "exited"]
    /\ Hangup
    /\ UNCHANGED <<lisVars, notify, sigVars, pc, id, taken, req, cur, out, result,
                   sockShutdown, leftBy, dreq, dout, xpc, wire, sreq, xresp, wresp, cresp>>

\* a line that json5::from_str rejects: continue
CliBadLine ==
    /\ client.pc = "prompt"
    /\ client.lines < MaxFrames
    /\ client' = [client EXCEPT !.lines = @ + 1]
    /\ UNCHANGED <<lisVars, notify, sigVars, sessVars, dreq, dout, xpc, wire, sreq, xresp,
                   wresp, cresp>>

\* a client that goes back to the prompt as soon as the frame is sent
CliSend_NoWait(r) ==
    /\ client.pc = "prompt"
    /\ client.lines < MaxFrames
    /\ inbox' = [inbox EXCEPT ![Mine] = Append(@, Frame(EncodeRequest(r)))]
    /\ client' = [client EXCEPT !.lines = @ + 1, !.sent = @ + 1]
    /\ UNCHANGED <<lisVars, notify, sigVars, pc, id, peer, taken, req, cur, out, result,
                   sockShutdown, leftBy, dreq, dout, xpc, wire, sreq, xresp, wresp, cresp>>

\* a line that parses: encode_to_vec, framed.send(..).await succeeds, and
\* the client goes on to framed.next().await
CliSend(r) ==
    /\ client.pc = "prompt"
    /\ client.lines < MaxFrames
    /\ inbox' = [inbox EXCEPT ![Mine] = Append(@, Frame(EncodeRequest(r)))]
    /\ client' = [client EXCEPT !.pc = "awaiting", !.lines = @ + 1, !.sent = @ + 1]
    /\ UNCHANGED <<lisVars, notify, sigVars, pc, id, peer, taken, req, cur, out, result,
                   sockShutdown, leftBy, dreq, dout, xpc, wire, sreq, xresp, wresp, cresp>>

\* framed.send(..).await fails on a connection the server left; `?`
CliSendErr ==
    /\ client.pc = "prompt"
    /\ client.lines < MaxFrames
    /\ ServerGone
    /\ client' = [client EXCEPT !.pc = "exited", !.lines = @ + 1]
    /\ Hangup
    /\ UNCHANGED <<lisVars, notify, sigVars, pc, id, taken, req, cur, out, result,
                   sockShutdown, leftBy, dreq, dout, xpc, wire, sreq, xresp, wresp, cresp>>

\* framed.next().await yields the response frame; decode and print it, or
\* leave main by `?` when it does not decode
CliRecv ==
    /\ client.pc = "awaiting"
    /\ Len(out[Mine]) > client.recv
    /\ IF DecodeResponse(out[Mine][client.recv + 1]).ok
       THEN /\ client' = [client EXCEPT !.pc = "prompt", !.recv = @ + 1]
            /\ UNCHANGED <<inbox, peer>>
       ELSE /\ client' = [client EXCEPT !.pc = "exited"]
            /\ Hangup
    /\ UNCHANGED <<lisVars, notify, sigVars, pc, id, taken, req, cur, out, result,
                   sockShutdown, leftBy, dreq, dout, xpc, wire, sreq, xresp, wresp, cresp>>

\* framed.next().await yields None, or an error, with no response frame:
\* "Server closed connection or no response received.", break (or `?`)
CliRecvClosed ==
    /\ client.pc = "awaiting"
    /\ Len(out[Mine]) = client.recv
    /\ ServerGone
    /\ client' = [client EXCEPT !.pc = "exited"]
    /\ Hangup
    /\ UNCHANGED <<lisVars, notify, sigVars, pc, id, taken, req, cur, out, result,
                   sockShutdown, leftBy, dreq, dout, xpc, wire, sreq, xresp, wresp, cresp>>

ClientStep ==
    \/ CliConnect
    \/ CliConnectErr
    \/ CliQuit
    \/ CliBadLine
    \/ \E r \in ClientLines \ {Unparsable} : CliSend(r)
    \/ CliSendErr
    \/ CliRecv
    \/ CliRecvClosed

NextClient ==
    \/ ClientStep
    \/ CtrlCReceived
    \/ CtrlCFailed
    \/ SignalNotify
    \/ ListenerStep
    \/ ServedStep(Mine)

SpecClient == InitClient /\ [][NextClient]_vars

(* ------------------------------ properties ----------------------------- *)
\* the encoded responses the handler can give to the request in frame bs
Responses(bs) ==
    LET d == DecodeRequest(bs)
    IN IF d.ok THEN {EncodeResponse(o.resp) : o \in {x \in Handle(d.val) : ~x.panic}}
       ELSE {}

AllDown ==
    /\ lpc \in {"exited", "returned"}
    /\ \A c \in Conns : ~Live(pc[c])

\* C1: when the shutdown signal fires while every open session and the
\* listener are idle in their select, eventually every session has closed
\* and the listener has left its accept loop.
C1_GracefulShutdownReachesAll == atFire.idle ~> AllDown

\* C2: a request the session was handling or answering when the shutdown
\* signal fired has its response frame written before the connection ends,
\* unless the session's own transport failed.
C2_InFlightNotAbandoned ==
    \A c \in Conns :
        (atFire.inFlight[c] > 0 /\ pc[c] \in {"closed", "aborted"} /\ result[c] # "Io")
            => Len(out[c]) >= atFire.inFlight[c]

\* C3: a session that has ended has called shutdown on its socket, whatever
\* made it leave the loop.
C3_ShutdownOnEveryExit ==
    \A c \in Conns : pc[c] = "closed" => sockShutdown[c]

\* C4: on every connection the frames written are the responses to the
\* frames read, in the same order; at most one read frame is unanswered, and
\* none is when the session is about to read the next frame or has left the
\* loop normally.
C4_SequentialInOrder ==
    \A c \in Conns :
        /\ Len(out[c]) <= Len(taken[c])
        /\ Len(taken[c]) - Len(out[c]) <= 1
        /\ \A k \in 1..Len(out[c]) : out[c][k] \in Responses(taken[c][k])
        /\ pc[c] \in {"loop", "select", "closing"} => Len(out[c]) = Len(taken[c])

C4_Witness ==
    \E c \in Conns :
        /\ Len(out[c]) = 2
        /\ out[c][1] # out[c][2]
        /\ pc[c] \in {"loop", "select"}

\* C5: a frame that does not decode as a request gets no response frame and
\* is the last frame of its connection: the session has closed with the
\* decode error and has written only the responses to the frames before it.
C5_DecodeFailureWritesNothing ==
    \A c \in Conns :
        \A k \in 1..Len(taken[c]) :
            ~DecodeRequest(taken[c][k]).ok
                => /\ k = Len(taken[c])
                   /\ pc[c] = "closed"
                   /\ result[c] = "BincodeDecode"
                   /\ Len(out[c]) = k - 1

C5_Witness ==
    \E c \in Conns :
        /\ result[c] = "BincodeDecode"
        /\ Len(taken[c]) = 2
        /\ Len(out[c]) = 1
        /\ lpc # "returned"

\* the step ends session a with an error or a panic
FailsNow(a) ==
    /\ Live(pc[a])
    /\ \/ pc'[a] = "closed" /\ result'[a] \in {"Io", "BincodeDecode"}
       \/ pc'[a] = "panicked"

\* C6: a step in which one session ends with a transport, framing or decode
\* error (or a panic) changes nothing of any other session and nothing of
\* the listener: the other sessions keep their place, their request in
\* flight, their pending input and their written frames, and the listener
\* stays where it was in its accept loop.
C6_FailureIsolated ==
    [][\A a \in Conns :
          FailsNow(a) =>
            /\ lpc' = lpc /\ backlog' = backlog /\ nacc' = nacc /\ counter' = counter
            /\ \A b \in Conns \ {a} :
                 /\ pc'[b] = pc[b] /\ req'[b] = req[b] /\ cur'[b] = cur[b]
                 /\ inbox'[b] = inbox[b] /\ taken'[b] = taken[b] /\ out'[b] = out[b]
                 /\ result'[b] = result[b]]_vars

C6_Witness ==
    \E a \in Conns, b \in Conns :
        /\ a # b
        /\ result[a] = "BincodeDecode"
        /\ Live(pc[b])
        /\ Len(out[b]) = 1
        /\ lpc \in {"loop", "select"}

\* C7: handling a request never panics and returns a response of the
\* request's own variant.
C7_DispatchTotalSameVariant ==
    dout # NoOut => (~dout.panic /\ dout.resp.tag = dreq.tag)

\* C8: every accepted connection has an id strictly greater than the id of
\* every connection accepted before it.
C8_IdsStrictlyIncrease ==
    \A c1 \in Conns, c2 \in Conns :
        (c1 < c2 /\ c2 <= nacc) => U32Less(id[c1], id[c2])

\* C9: once the signal has fired, a task that starts waiting (polls a fresh
\* select) never ends up pending on the notifier.
C9_StickyForLateWaiters ==
    [][fired >= 1 =>
          /\ \A c \in Conns : pc[c] = "loop" => pc'[c] # "select"
          /\ lpc = "loop" => lpc' \notin {"select", "select_noaccept"}]_vars

\* C10: notify_one is called at most once, and only after an interrupt
\* was received.
C10_FiresOnceOnInterruptOnly ==
    /\ fired <= 1
    /\ fired >= 1 => interrupt


\* C11: as long as the shutdown signal has not fired, the listener is in
\* its accept loop with its accept branch live, and a connection waiting in
\* the accept queue can be accepted, whatever earlier accepts returned and
\* however earlier sessions ended.
C11_AcceptsUntilShutdown ==
    fired = 0 =>
        /\ lpc \in {"loop", "select"}
        /\ backlog > 0 => ENABLED ListenerAccept


\* C12 as claimed: a session that left its loop on the peer's end of stream
\* writes no further frame and, once ended, has returned Ok.
C12_EofNeverFlagsFailure ==
    \A c \in Conns :
        leftBy[c] = "eof" =>
            /\ Len(out[c]) = Len(taken[c])
            /\ pc[c] = "closed" => result[c] = "Ok"

\* C12 as amended: a session that left its loop on the peer's end of stream
\* handles no further request and writes no further frame; it goes on to the
\* socket shutdown only, and when it has ended it has called the socket
\* shutdown and returned Ok, or the I/O error of that shutdown; it never
\* returns a decode error.
C12_EofExitsThroughShutdown ==
    \A c \in Conns :
        leftBy[c] = "eof" =>
            /\ pc[c] \in {"closing", "closed", "aborted"}
            /\ Len(out[c]) = Len(taken[c])
            /\ req[c] = NoReq /\ cur[c] = <<>>
            /\ pc[c] = "closing" => result[c] = "none"
            /\ pc[c] = "closed" => (sockShutdown[c] /\ result[c] \in {"Ok", "Io"})

C12_Witness ==
    \E c \in Conns :
        /\ leftBy[c] = "eof"
        /\ pc[c] = "closed"
        /\ result[c] = "Ok"
        /\ Len(out[c]) = 1


\* C13: the server decodes what the client encoded to the client's request
\* value, and the client decodes what the server encoded to the server's
\* response value.
C13_RoundTripAcrossPeers ==
    /\ (dreq # NoReq /\ xpc \notin {"client", "wire"}) => (sreq.ok /\ sreq.val = dreq)
    /\ xpc = "done" => (cresp.ok /\ cresp.val = xresp)

C13_Witness ==
    /\ xpc = "done"
    /\ dreq = Add(I32Min, 32768)
    /\ cresp.ok
    /\ cresp.val.tag = "Add"


\* the length a prefix declares is above the codec's maximum
DeclaresAboveMax(h) == h[1] > 0 \/ h[2] * 65536 + h[3] * 256 + h[4] > MaxFrameLength

\* C14: a step in which a session's codec consumes a length prefix whose
\* payload has not arrived is the rejection of a prefix that declares more
\* than the maximum: the session ends with an I/O error, no frame is yielded
\* and no request dispatched for it, nothing is written, and every other
\* session and the listener are left as they were.
C14_OversizedRejectedAtPrefix ==
    [][\A c \in Conns :
          (/\ inbox[c] # <<>>
           /\ Head(inbox[c]).kind = "head"
           /\ inbox'[c] # inbox[c])
          => /\ DeclaresAboveMax(Head(inbox[c]).bytes)
             /\ pc'[c] = "closed" /\ result'[c] = "Io"
             /\ taken'[c] = taken[c] /\ req'[c] = req[c] /\ out'[c] = out[c]
             /\ lpc' = lpc
             /\ \A b \in Conns \ {c} : pc'[b] = pc[b] /\ result'[b] = result[b]]_vars

C14_Witness ==
    \E c \in Conns, b \in Conns :
        /\ b # c
        /\ leftBy[c] = "too_long"
        /\ pc[c] = "closed"
        /\ result[c] = "Io"
        /\ Live(pc[b])


\* C15: for a client that sends Add{lhs, rhs}, the exchange never ends in a
\* panic of the handler, and the response the client decodes is Add(lhs + rhs),
\* the integer sum.
C15_AddReturnsSum ==
    dreq.tag = "Add" =>
        /\ xpc # "panicked"
        /\ xpc = "done" =>
             /\ cresp.ok
             /\ ~AddOverflows(dreq.lhs, dreq.rhs)
             /\ cresp.val = [tag |-> "Add", val |-> dreq.lhs + dreq.rhs]

\* C16: the server decodes a frame payload (and so dispatches it) only if
\* the payload is exactly the encoding of the request it decoded to.
C16_OnlyExactEncodingsAccepted ==
    (xpc \notin {"client", "wire"} /\ sreq.ok) => EncodeRequest(sreq.val) = wire


\* C17: a session never writes more frames than it has read requests, writes
\* nothing before it has read one, and its k-th written frame is the response
\* to the k-th request frame it read.
C17_OnlyResponds ==
    \A c \in Conns :
        /\ Len(out[c]) <= Len(taken[c])
        /\ taken[c] = <<>> => out[c] = <<>>
        /\ \A k \in 1..Len(out[c]) :
             /\ DecodeRequest(taken[c][k]).ok
             /\ out[c][k] \in Responses(taken[c][k])

C17_Witness ==
    \E c \in Conns :
        /\ Len(taken[c]) = 2
        /\ Len(out[c]) = 1
        /\ pc[c] = "dispatching"


\* session b has a request frame ready to be read at its select
HasFrameToRead(b) ==
    /\ pc[b] \in {"loop", "select"}
    /\ inbox[b] # <<>>
    /\ Head(inbox[b]).kind = "frame"

\* session b is at its select with the shutdown notification within reach
CanObserveShutdown(b) ==
    \/ pc[b] = "loop" /\ notify.permit
    \/ pc[b] = "select" /\ b \in notify.assigned

\* C18: while the handler of a request on connection a has not completed,
\* the listener can still accept a waiting connection, and every other
\* session b can still take each step its own state calls for: read its
\* next request, finish its handler, write its response, observe the
\* shutdown it was notified of, and shut its socket down.
C18_StalledHandlerIsLocal ==
    \A a \in Conns :
        pc[a] = "dispatching" =>
            /\ (lpc \in {"loop", "select"} /\ backlog > 0) => ENABLED ListenerAccept
            /\ \A b \in Conns \ {a} :
                 /\ HasFrameToRead(b) => ENABLED TakeFrame(b)
                 /\ pc[b] = "dispatching" => ENABLED HandleDone(b)
                 /\ pc[b] = "sending" => ENABLED SendOk(b)
                 /\ CanObserveShutdown(b) => ENABLED SessionNotified(b)
                 /\ pc[b] = "closing" => ENABLED SocketShutdown(b, "Ok")

C18_Witness ==
    \E a \in Conns, b \in Conns :
        /\ a # b
        /\ pc[a] = "dispatching"
        /\ Len(out[b]) = 1
        /\ leftBy[b] = "shutdown"
        /\ pc[b] = "closed"


\* request frames the client has put on its connection
FramesOnWire ==
    Len(taken[Mine])
        + Cardinality({i \in DOMAIN inbox[Mine] : inbox[Mine][i].kind = "frame"})

\* C19: the client has at most one request in flight: the request frames
\* it has put on the connection exceed neither the responses it has decoded
\* nor the responses the server has written by more than one; at the prompt
\* nothing is outstanding; while it waits for a response it can send
\* nothing, and when the server is gone without responding it can leave its
\* loop; once it has left it can send nothing more.
C19_OneRequestInFlight ==
    /\ FramesOnWire = client.sent
    /\ FramesOnWire <= client.recv + 1
    /\ FramesOnWire <= Len(out[Mine]) + 1
    /\ client.pc = "prompt" => FramesOnWire = client.recv
    /\ client.pc \in {"awaiting", "exited"} =>
           ~ENABLED (\E r \in ClientLines \ {Unparsable} : CliSend(r))
    /\ (client.pc = "awaiting" /\ ServerGone /\ Len(out[Mine]) = client.recv) =>
           ENABLED CliRecvClosed

C19_Witness ==
    /\ client.pc = "exited"
    /\ client.sent = 2
    /\ client.recv = 1
    /\ Len(out[Mine]) = 1
    /\ ServerGone


\* some waiter has observed the shutdown notification and left its loop
SomeoneLeftByShutdown ==
    \/ lpc \in {"exited", "returned"}
    \/ \E c \in Conns : leftBy[c] = "shutdown"

\* C20: once the signal task has called notify_one, then under fair
\* scheduling the listener or some session eventually observes the
\* notification and leaves its loop, also when nobody was registered on
\* the notifier at the time of the call.
C20_NotificationNotLost == (fired >= 1) ~> SomeoneLeftByShutdown

\* the permit is stored while the listener is in its accept handler and
\* every open session is handling a request
C20_Witness ==
    /\ fired = 1
    /\ notify.permit
    /\ lpc = "loop"
    /\ nacc >= 1
    /\ \A c \in Conns : pc[c] \in {"none", "dispatching"}
    /\ ~SomeoneLeftByShutdown

====
